---- MODULE Spec2Model ----
(***************************************************************************)
(* Model of rosbag_to_csv/data_recorder_node.py: the DataRecorderNode      *)
(* (subscription callbacks, the sampling timer, the CSV export) and main.  *)
(*                                                                         *)
(* Python values are records [t |-> type name, r |-> str(value)]; a        *)
(* message's attributes are given by the table Attrs.  Strings that the    *)
(* code takes apart (field paths) are sequences of one-character strings.  *)
(* Callbacks (one per subscription, one for the timer) are interleaved     *)
(* statement by statement; data_lock is the only thing that orders them.   *)
(* The executor of rclpy.spin running them one after the other is one of   *)
(* these interleavings.  putlog and rowlog are history variables: no       *)
(* action reads them.                                                      *)
(***************************************************************************)
EXTENDS Integers, Sequences, FiniteSets, TLC

\* ------------------------------------------------------------------ bounds
\* Deliveries of messages (calls of a subscription callback) in one run.
MaxPuts == 3
\* Firings of the sampling timer (calls of record_data) in one run.
MaxTicks == 2

\* ------------------------------------------------------------ Python values
None == [t |-> "NoneType", r |-> "None"]
PyInt(s) == [t |-> "int", r |-> s]
PyBool(s) == [t |-> "bool", r |-> s]
PyStr(s) == [t |-> "str", r |-> s]
\* The literal '' of record_data (lines 105 and 107).
EmptyStr == PyStr("")

\* Nested objects of the messages and the messages themselves.
X5 == [t |-> "X", r |-> "X(y=5)"]
X7 == [t |-> "X", r |-> "X(y=7)"]
X0 == [t |-> "X", r |-> "X(y=0)"]
M5 == [t |-> "A", r |-> "A(x=X(y=5), f=False, s='')"]
M7 == [t |-> "A", r |-> "A(x=X(y=7), f=True, s='a')"]
M0 == [t |-> "A", r |-> "A(x=X(y=0), f=False, s='')"]

NoAttrs == [a \in {} |-> None]

\* The attributes of an object, by name (a name is a sequence of characters).
Attrs(obj) ==
  CASE obj = M5 -> (<<"x">> :> X5) @@ (<<"f">> :> PyBool("False")) @@ (<<"s">> :> PyStr(""))
    [] obj = M7 -> (<<"x">> :> X7) @@ (<<"f">> :> PyBool("True")) @@ (<<"s">> :> PyStr("a"))
    [] obj = M0 -> (<<"x">> :> X0) @@ (<<"f">> :> PyBool("False")) @@ (<<"s">> :> PyStr(""))
    [] obj = X5 -> (<<"y">> :> PyInt("5"))
    [] obj = X7 -> (<<"y">> :> PyInt("7"))
    [] obj = X0 -> (<<"y">> :> PyInt("0"))
    [] OTHER -> NoAttrs

\* The messages the transport delivers on a topic.
Delivered(topic) == IF topic = "/a" THEN {M5, M7} ELSE {M0}

\* ------------------------------------------------------------ dictionaries
EmptyDict == [k \in {} |-> None]
\* d[k] = v
DictSet(d, k, v) == [x \in (DOMAIN d) \cup {k} |-> IF x = k THEN v ELSE d[x]]
\* d.get(k)
DictGet(d, k) == IF k \in DOMAIN d THEN d[k] ELSE None

\* ------------------------------------------------------------ field paths
RECURSIVE SplitAcc(_, _, _)
SplitAcc(s, cur, acc) ==
  IF s = <<>> THEN Append(acc, cur)
  ELSE IF Head(s) = "." THEN SplitAcc(Tail(s), <<>>, Append(acc, cur))
  ELSE SplitAcc(Tail(s), Append(cur, Head(s)), acc)

\* field_path.split('.')
split(field_path) == SplitAcc(field_path, <<>>, <<>>)

\* The loop of get_field_value: [ok |-> FALSE] is a raised AttributeError.
RECURSIVE WalkAttrs(_, _)
WalkAttrs(value, attrs) ==
  IF attrs = <<>> THEN [ok |-> TRUE, value |-> value]
  ELSE IF Head(attrs) \in DOMAIN Attrs(value)
       THEN WalkAttrs(Attrs(value)[Head(attrs)], Tail(attrs))
       ELSE [ok |-> FALSE, value |-> None]

\* get_field_value(msg, field_path): the value returned, and whether the
\* error was logged on the way.
get_field_value(msg, field_path) ==
  LET w == WalkAttrs(msg, split(field_path))
  IN  IF w.ok THEN [value |-> w.value, logged |-> FALSE]
      ELSE [value |-> None, logged |-> TRUE]

\* --------------------------------------------------------- configurations
PathXY == <<"x", ".", "y">>
PathXQ == <<"x", ".", "q">>
PathXYZ == <<"x", ".", "y", ".", "z">>
PathX == <<"x">>
PathF == <<"f">>
PathS == <<"s">>
PathEmpty == <<>>

Field(name, path) == [name |-> name, field_path |-> path]
Sub(topic, type, fs) == [topic_name |-> topic, message_type |-> type, fields |-> fs]

\* One source, one field (x.y -> col1).
CfgScenario == << Sub("/a", "pkg/msg/A", << Field("col1", PathXY) >>) >>
\* Two sources; paths that resolve (to 5 or 7, to '' or 'a', to 0) and one
\* that misses.
CfgTwo ==
  << Sub("/a", "pkg/msg/A", << Field("col1", PathXY), Field("col2", PathXQ),
                               Field("col3", PathS) >>),
     Sub("/b", "pkg/msg/A", << Field("col4", PathXY) >>) >>
\* The first subscription names a message type that cannot be imported; the
\* paths of the second go through an integer, resolve to False or True, and
\* end on a nested object.
CfgSkip ==
  << Sub("/b", "pkg/msg/Nope", << Field("col9", PathXY) >>),
     Sub("/a", "pkg/msg/A", << Field("col1", PathXYZ), Field("col2", PathF),
                               Field("col3", PathX) >>) >>
\* Two fields with the same output name.
CfgDup == << Sub("/a", "pkg/msg/A", << Field("col1", PathXY), Field("col1", PathS) >>) >>
\* An empty topic name after a proper one (whose field has an empty path).
CfgEmptyKey ==
  << Sub("/a", "pkg/msg/A", << Field("col1", PathEmpty) >>),
     Sub("", "pkg/msg/A", << Field("col2", PathF) >>) >>

Launch(cfg, ival) == [config |-> cfg, interval |-> ival]
\* The configuration file and the interval parameter of a run.
Launches ==
  { Launch(CfgScenario, 1), Launch(CfgTwo, 1), Launch(CfgSkip, 1), Launch(CfgDup, 1),
    Launch(CfgEmptyKey, 1), Launch(CfgSkip, 0) }

Topics == {"/a", "/b", ""}

\* get_message(message_type_str) finds the class.
Importable(message_type_str) == message_type_str = "pkg/msg/A"

\* ------------------------------------------------------------------ state
VARIABLES
  config,                  \* config['subscriptions']
  interval,                \* the interval parameter
  mainpc,                  \* where main is
  subIdx,                  \* position of the loop of __init__ over the subscriptions
  recorded_subscriptions,  \* topic -> its subscription
  latest_messages,         \* topic -> last message, or None
  fields,                  \* self.fields
  data,                    \* self.data
  timer,                   \* the timer was created
  data_lock,               \* data_lock.locked()
  cb,                      \* per topic: the callback's position and its msg
  tickpc, fi, row, msg,    \* record_data: position, loop index, locals
  ticksFired,              \* calls of record_data
  ticksCompleted,          \* calls of record_data that returned
  putlog,                  \* history: the stores of message_callback, in order
  rowlog,                  \* history: Len(putlog) when each row was appended
  logs,                    \* what was logged, and whether under data_lock
  csvfile,                 \* the output file
  wi                       \* write_csv: position in self.data

initVars == <<config, interval, subIdx, recorded_subscriptions, fields, timer>>
tickVars == <<tickpc, fi, row, msg, ticksFired, ticksCompleted>>
outVars == <<csvfile, wi>>
vars == <<config, interval, mainpc, subIdx, recorded_subscriptions, latest_messages,
          fields, data, timer, data_lock, cb, tickpc, fi, row, msg, ticksFired,
          ticksCompleted, putlog, rowlog, logs, csvfile, wi>>

IdleCb == [pc |-> "idle", msg |-> None]
NoFile == [opened |-> FALSE, lines |-> <<>>]
LogEntry(level, text) == [level |-> level, text |-> text, locked |-> data_lock]

Init ==
  /\ \E l \in Launches : config = l.config /\ interval = l.interval
  /\ mainpc = "init"
  /\ subIdx = 1
  /\ recorded_subscriptions = EmptyDict
  /\ latest_messages = EmptyDict
  /\ fields = <<>>
  /\ data = <<>>
  /\ timer = FALSE
  /\ data_lock = FALSE
  /\ cb = [t \in Topics |-> IdleCb]
  /\ tickpc = "idle" /\ fi = 1 /\ row = EmptyDict /\ msg = None
  /\ ticksFired = 0 /\ ticksCompleted = 0
  /\ putlog = <<>> /\ rowlog = <<>>
  /\ logs = {}
  /\ csvfile = NoFile /\ wi = 1

\* ---------------------------------------------------------------- __init__
\* Lines 60-67: the field dictionaries one subscription adds to self.fields.
CollectFields(topic_name, fs) ==
  [i \in 1..Len(fs) |-> [name |-> fs[i].name, topic_name |-> topic_name,
                         field_path |-> fs[i].field_path]]

\* Lines 35-67, one pass of the loop: the type is found and the subscription
\* is created.
InitSubscription ==
  /\ mainpc = "init" /\ subIdx <= Len(config)
  /\ LET sub == config[subIdx] IN
       /\ Importable(sub.message_type)
       /\ recorded_subscriptions' =
            DictSet(recorded_subscriptions, sub.topic_name,
                    [message_type |-> sub.message_type, fields |-> sub.fields])
       /\ latest_messages' = DictSet(latest_messages, sub.topic_name, None)
       /\ fields' = fields \o CollectFields(sub.topic_name, sub.fields)
  /\ subIdx' = subIdx + 1
  /\ UNCHANGED <<config, interval, mainpc, data, timer, data_lock, cb, tickVars,
                 putlog, rowlog, logs, outVars>>

\* Lines 40-43 without the continue: the topic and its fields are
\* registered all the same.
InitSkipNoContinue ==
  /\ mainpc = "init" /\ subIdx <= Len(config)
  /\ ~Importable(config[subIdx].message_type)
  /\ logs' = logs \cup {LogEntry("error", "Could not import message type")}
  /\ latest_messages' = DictSet(latest_messages, config[subIdx].topic_name, None)
  /\ fields' = fields \o CollectFields(config[subIdx].topic_name, config[subIdx].fields)
  /\ subIdx' = subIdx + 1
  /\ UNCHANGED <<config, interval, mainpc, recorded_subscriptions,
                 data, timer, data_lock, cb, tickVars, putlog, rowlog, outVars>>

\* Lines 40-43 with the continue after the fields: the fields of the skipped
\* subscription are collected, its topic is not registered.
InitSkipKeepsFields ==
  /\ mainpc = "init" /\ subIdx <= Len(config)
  /\ ~Importable(config[subIdx].message_type)
  /\ logs' = logs \cup {LogEntry("error", "Could not import message type")}
  /\ fields' = fields \o CollectFields(config[subIdx].topic_name, config[subIdx].fields)
  /\ subIdx' = subIdx + 1
  /\ UNCHANGED <<config, interval, mainpc, recorded_subscriptions, latest_messages,
                 data, timer, data_lock, cb, tickVars, putlog, rowlog, outVars>>

\* Lines 40-43: get_message gives None; the error is logged and the loop
\* goes on with the next subscription.
InitSkip ==
  /\ mainpc = "init" /\ subIdx <= Len(config)
  /\ ~Importable(config[subIdx].message_type)
  /\ logs' = logs \cup {LogEntry("error", "Could not import message type")}
  /\ subIdx' = subIdx + 1
  /\ UNCHANGED <<config, interval, mainpc, recorded_subscriptions, latest_messages,
                 fields, data, timer, data_lock, cb, tickVars, putlog, rowlog, outVars>>

\* Line 40: get_message raises instead; the exception leaves __init__ and
\* main (line 125 is outside the try).
InitImportRaises ==
  /\ mainpc = "init" /\ subIdx <= Len(config)
  /\ ~Importable(config[subIdx].message_type)
  /\ mainpc' = "crashed"
  /\ UNCHANGED <<initVars, latest_messages, data, data_lock, cb, tickVars, putlog,
                 rowlog, logs, outVars>>

\* Line 46: create_subscription refuses the topic name and raises. The code
\* passes the name on unchecked; whether an empty name is refused is the
\* transport's choice.
InitSubscribeRaises ==
  /\ mainpc = "init" /\ subIdx <= Len(config)
  /\ Importable(config[subIdx].message_type)
  /\ config[subIdx].topic_name = ""
  /\ mainpc' = "crashed"
  /\ UNCHANGED <<initVars, latest_messages, data, data_lock, cb, tickVars, putlog,
                 rowlog, logs, outVars>>

\* Line 70, then line 127: the timer is created and main spins.
CreateTimer ==
  /\ mainpc = "init" /\ subIdx > Len(config)
  /\ timer' = TRUE
  /\ mainpc' = "spin"
  /\ UNCHANGED <<config, interval, subIdx, recorded_subscriptions, latest_messages,
                 fields, data, data_lock, cb, tickVars, putlog, rowlog, logs, outVars>>

\* Line 70: create_timer refuses the period and raises. The code passes the
\* interval on unchecked; whether a period <= 0 is refused is the
\* transport's choice.
CreateTimerRaises ==
  /\ mainpc = "init" /\ subIdx > Len(config)
  /\ interval <= 0
  /\ mainpc' = "crashed"
  /\ UNCHANGED <<initVars, latest_messages, data, data_lock, cb, tickVars, putlog,
                 rowlog, logs, outVars>>

\* -------------------------------------------------------- message_callback
PutsInFlight == Cardinality({t \in Topics : cb[t].pc # "idle"})

\* Lines 73-74 and 77: the transport delivers a message on a subscribed
\* topic; the callback arrives at the with statement.
Deliver(t) ==
  /\ mainpc = "spin"
  /\ t \in DOMAIN recorded_subscriptions
  /\ cb[t].pc = "idle"
  /\ Len(putlog) + PutsInFlight < MaxPuts
  /\ \E m \in Delivered(t) : cb' = [cb EXCEPT ![t] = [pc |-> "acquire", msg |-> m]]
  /\ UNCHANGED <<initVars, mainpc, latest_messages, data, data_lock, tickVars,
                 putlog, rowlog, logs, outVars>>

\* Line 78 with an entry that does not wait for the lock.
CbAcquireNoWait(t) ==
  /\ cb[t].pc = "acquire"
  /\ data_lock' = TRUE
  /\ cb' = [cb EXCEPT ![t].pc = "store"]
  /\ UNCHANGED <<initVars, mainpc, latest_messages, data, tickVars, putlog, rowlog,
                 logs, outVars>>

\* Line 78: with self.data_lock.
CbAcquire(t) ==
  /\ cb[t].pc = "acquire"
  /\ ~data_lock
  /\ data_lock' = TRUE
  /\ cb' = [cb EXCEPT ![t].pc = "store"]
  /\ UNCHANGED <<initVars, mainpc, latest_messages, data, tickVars, putlog, rowlog,
                 logs, outVars>>

\* A store that keeps the first message of a topic.
StoreMessageFirstWins(lm, topic_name, m) ==
  IF topic_name \in DOMAIN lm /\ lm[topic_name] # None THEN lm ELSE DictSet(lm, topic_name, m)

\* Line 79: self.latest_messages[topic_name] = msg.
StoreMessage(lm, topic_name, m) == DictSet(lm, topic_name, m)

CbStore(t) ==
  /\ cb[t].pc = "store"
  /\ latest_messages' = StoreMessage(latest_messages, t, cb[t].msg)
  /\ putlog' = Append(putlog, <<t, cb[t].msg>>)
  /\ cb' = [cb EXCEPT ![t].pc = "release"]
  /\ UNCHANGED <<initVars, mainpc, data, data_lock, tickVars, rowlog, logs, outVars>>

\* The end of the with block of line 78 with the lock left taken.
CbReleaseKeepsLock(t) ==
  /\ cb[t].pc = "release"
  /\ cb' = [cb EXCEPT ![t] = IdleCb]
  /\ UNCHANGED <<initVars, mainpc, latest_messages, data, data_lock, tickVars,
                 putlog, rowlog, logs, outVars>>

\* The end of the with block of line 78, and the return.
CbRelease(t) ==
  /\ cb[t].pc = "release"
  /\ data_lock' = FALSE
  /\ cb' = [cb EXCEPT ![t] = IdleCb]
  /\ UNCHANGED <<initVars, mainpc, latest_messages, data, tickVars, putlog, rowlog,
                 logs, outVars>>

\* ------------------------------------------------------------- record_data
\* The timer fires and record_data is called.
TimerFire ==
  /\ mainpc = "spin" /\ timer
  /\ tickpc = "idle"
  /\ ticksFired < MaxTicks
  /\ tickpc' = "acquire"
  /\ ticksFired' = ticksFired + 1
  /\ UNCHANGED <<initVars, mainpc, latest_messages, data, data_lock, cb, fi, row, msg,
                 ticksCompleted, putlog, rowlog, logs, outVars>>

\* Lines 93-94 with the row put into the table before it is filled.
TickAcquireAppendsFirst ==
  /\ tickpc = "acquire"
  /\ ~data_lock
  /\ data_lock' = TRUE
  /\ row' = EmptyDict
  /\ data' = Append(data, EmptyDict)
  /\ rowlog' = Append(rowlog, Len(putlog))
  /\ fi' = 1
  /\ tickpc' = "loop"
  /\ UNCHANGED <<initVars, mainpc, latest_messages, cb, msg, ticksFired,
                 ticksCompleted, putlog, logs, outVars>>

\* Lines 93-94 without the with block: the loop runs without the lock.
TickAcquireNoLock ==
  /\ tickpc = "acquire"
  /\ row' = EmptyDict
  /\ fi' = 1
  /\ tickpc' = "loop"
  /\ UNCHANGED <<initVars, mainpc, latest_messages, data, data_lock, cb, msg,
                 ticksFired, ticksCompleted, putlog, rowlog, logs, outVars>>

\* Lines 93-94: with self.data_lock; row = {}.
TickAcquire ==
  /\ tickpc = "acquire"
  /\ ~data_lock
  /\ data_lock' = TRUE
  /\ row' = EmptyDict
  /\ fi' = 1
  /\ tickpc' = "loop"
  /\ UNCHANGED <<initVars, mainpc, latest_messages, data, cb, msg, ticksFired,
                 ticksCompleted, putlog, rowlog, logs, outVars>>

\* Variants of lines 100-107 with one slip each.
\* No entry for a topic without a message.
RowAfterFieldSkipNone(r, field, m) ==
  IF m # None
  THEN LET value == get_field_value(m, field.field_path).value
       IN  IF value # None THEN DictSet(r, field.name, value)
           ELSE DictSet(r, field.name, EmptyStr)
  ELSE r

\* None, not '', for a topic without a message.
RowAfterFieldKeepNone(r, field, m) ==
  IF m # None
  THEN LET value == get_field_value(m, field.field_path).value
       IN  IF value # None THEN DictSet(r, field.name, value)
           ELSE DictSet(r, field.name, EmptyStr)
  ELSE DictSet(r, field.name, None)

\* "if value:" in place of "if value is not None:".
RowAfterFieldTruthy(r, field, m) ==
  IF m # None
  THEN LET value == get_field_value(m, field.field_path).value
       IN  IF value \notin {None, PyInt("0"), PyBool("False"), PyStr("")}
           THEN DictSet(r, field.name, value)
           ELSE DictSet(r, field.name, EmptyStr)
  ELSE DictSet(r, field.name, EmptyStr)

\* A failed extraction starts the row afresh.
RowAfterFieldReset(r, field, m) ==
  IF m # None
  THEN LET value == get_field_value(m, field.field_path).value
       IN  IF value # None THEN DictSet(r, field.name, value)
           ELSE DictSet(EmptyDict, field.name, EmptyStr)
  ELSE DictSet(r, field.name, EmptyStr)

\* Lines 100-107 with a nested object taken for a miss.
RowAfterFieldScalarOnly(r, field, m) ==
  IF m # None
  THEN LET value == get_field_value(m, field.field_path).value
       IN  IF value # None /\ value.t \in {"int", "bool", "str"}
           THEN DictSet(r, field.name, value)
           ELSE DictSet(r, field.name, EmptyStr)
  ELSE DictSet(r, field.name, EmptyStr)

\* Lines 100-107: what one field adds to the row.
RowAfterField(r, field, m) ==
  IF m # None
  THEN LET value == get_field_value(m, field.field_path).value
       IN  IF value # None THEN DictSet(r, field.name, value)
           ELSE DictSet(r, field.name, EmptyStr)
  ELSE DictSet(r, field.name, EmptyStr)

\* Lines 95-107, one pass of the loop over self.fields.
TickField ==
  /\ tickpc = "loop" /\ fi <= Len(fields)
  /\ LET field == fields[fi]
         m == DictGet(latest_messages, field.topic_name)
     IN  /\ msg' = m
         /\ row' = RowAfterField(row, field, m)
         /\ logs' = IF m # None /\ get_field_value(m, field.field_path).logged
                    THEN logs \cup {LogEntry("error", "Could not get field")}
                    ELSE logs
  /\ fi' = fi + 1
  /\ UNCHANGED <<initVars, mainpc, latest_messages, data, data_lock, cb, tickpc,
                 ticksFired, ticksCompleted, putlog, rowlog, outVars>>

\* Line 108 with a skip of the rows whose fields are all empty.
TickAppendSkipEmpty ==
  /\ tickpc = "loop" /\ fi > Len(fields)
  /\ data' = IF \A n \in DOMAIN row : row[n] = EmptyStr THEN data ELSE Append(data, row)
  /\ rowlog' = IF \A n \in DOMAIN row : row[n] = EmptyStr THEN rowlog
               ELSE Append(rowlog, Len(putlog))
  /\ tickpc' = "release"
  /\ UNCHANGED <<initVars, mainpc, latest_messages, data_lock, cb, fi, row, msg,
                 ticksFired, ticksCompleted, putlog, logs, outVars>>

\* Line 108 with insert(0, row) in place of append(row).
TickAppendFront ==
  /\ tickpc = "loop" /\ fi > Len(fields)
  /\ data' = <<row>> \o data
  /\ rowlog' = <<Len(putlog)>> \o rowlog
  /\ tickpc' = "release"
  /\ UNCHANGED <<initVars, mainpc, latest_messages, data_lock, cb, fi, row, msg,
                 ticksFired, ticksCompleted, putlog, logs, outVars>>

\* Line 108: self.data.append(row).
TickAppend ==
  /\ tickpc = "loop" /\ fi > Len(fields)
  /\ data' = Append(data, row)
  /\ rowlog' = Append(rowlog, Len(putlog))
  /\ tickpc' = "release"
  /\ UNCHANGED <<initVars, mainpc, latest_messages, data_lock, cb, fi, row, msg,
                 ticksFired, ticksCompleted, putlog, logs, outVars>>

\* The end of the with block of line 93, and the return.
TickRelease ==
  /\ tickpc = "release"
  /\ data_lock' = FALSE
  /\ tickpc' = "idle" /\ fi' = 1 /\ row' = EmptyDict /\ msg' = None
  /\ ticksCompleted' = ticksCompleted + 1
  /\ UNCHANGED <<initVars, mainpc, latest_messages, data, cb, ticksFired, putlog,
                 rowlog, logs, outVars>>

\* -------------------------------------------------------------------- main
\* The end of spin without an end of the callbacks that are running.
InterruptLeavesRunning ==
  /\ mainpc = "spin"
  /\ mainpc' = "write_csv"
  /\ UNCHANGED <<initVars, latest_messages, data, data_lock, cb, tickVars, putlog,
                 rowlog, logs, outVars>>

\* Lines 126-131: spin ends (KeyboardInterrupt, at any point). A callback
\* that is running is unwound, its with block releasing the lock, and main
\* goes on to write_csv.
Interrupt ==
  /\ mainpc = "spin"
  /\ mainpc' = "write_csv"
  /\ cb' = [t \in Topics |-> IdleCb]
  /\ tickpc' = "idle" /\ fi' = 1 /\ row' = EmptyDict /\ msg' = None
  /\ data_lock' = FALSE
  /\ UNCHANGED <<initVars, latest_messages, data, ticksFired, ticksCompleted, putlog,
                 rowlog, logs, outVars>>

\* --------------------------------------------------------------- write_csv
\* Line 115.
field_names == [i \in 1..Len(fields) |-> fields[i].name]

\* What csv.writer writes for a value: '' for None, the string itself, and
\* str(value) for anything else.
Render(value) == IF value = None THEN "" ELSE value.r

\* writerow with the values in the reverse of the column order.
RowLineReversed(names, r) ==
  [i \in 1..Len(names) |->
     Render(IF names[Len(names) + 1 - i] \in DOMAIN r THEN r[names[Len(names) + 1 - i]]
            ELSE EmptyStr)]

\* DictWriter.writerow(row): the row's values in the order of fieldnames,
\* '' (restval) for a name the row lacks.
RowLine(names, r) ==
  [i \in 1..Len(names) |-> Render(IF names[i] \in DOMAIN r THEN r[names[i]] ELSE EmptyStr)]

\* write_csv without lines 111-113: a file with the header alone.
WriteCsvEmptyHeaderOnly ==
  /\ mainpc = "write_csv"
  /\ data = <<>>
  /\ csvfile' = [opened |-> TRUE, lines |-> <<field_names>>]
  /\ logs' = logs \cup {LogEntry("info", "Data written to output_csv")}
  /\ mainpc' = "destroy"
  /\ UNCHANGED <<initVars, latest_messages, data, data_lock, cb, tickVars, putlog,
                 rowlog, wi>>

\* Lines 111-113: nothing was recorded.
WriteCsvEmpty ==
  /\ mainpc = "write_csv"
  /\ data = <<>>
  /\ logs' = logs \cup {LogEntry("info", "No data to write to CSV.")}
  /\ mainpc' = "destroy"
  /\ UNCHANGED <<initVars, latest_messages, data, data_lock, cb, tickVars, putlog,
                 rowlog, outVars>>

\* Lines 111 and 115-116: the file is opened for writing (and truncated).
WriteCsvOpen ==
  /\ mainpc = "write_csv"
  /\ data # <<>>
  /\ csvfile' = [opened |-> TRUE, lines |-> <<>>]
  /\ mainpc' = "writeheader"
  /\ UNCHANGED <<initVars, latest_messages, data, data_lock, cb, tickVars, putlog,
                 rowlog, logs, wi>>

\* Line 118.
WriteHeader ==
  /\ mainpc = "writeheader"
  /\ csvfile' = [csvfile EXCEPT !.lines = Append(@, field_names)]
  /\ wi' = 1
  /\ mainpc' = "writerows"
  /\ UNCHANGED <<initVars, latest_messages, data, data_lock, cb, tickVars, putlog,
                 rowlog, logs>>

\* Lines 119-120, one pass of the loop over self.data.
WriteRow ==
  /\ mainpc = "writerows" /\ wi <= Len(data)
  /\ csvfile' = [csvfile EXCEPT !.lines = Append(@, RowLine(field_names, data[wi]))]
  /\ wi' = wi + 1
  /\ UNCHANGED <<initVars, mainpc, latest_messages, data, data_lock, cb, tickVars,
                 putlog, rowlog, logs>>

\* Line 121, after the loop and the end of the with block of line 116.
WriteCsvDone ==
  /\ mainpc = "writerows" /\ wi > Len(data)
  /\ logs' = logs \cup {LogEntry("info", "Data written to output_csv")}
  /\ mainpc' = "destroy"
  /\ UNCHANGED <<initVars, latest_messages, data, data_lock, cb, tickVars, putlog,
                 rowlog, outVars>>

\* Lines 132-133.
Destroy ==
  /\ mainpc = "destroy"
  /\ mainpc' = "done"
  /\ UNCHANGED <<initVars, latest_messages, data, data_lock, cb, tickVars, putlog,
                 rowlog, logs, outVars>>

\* ----------------------------------------------------------- specification
Next ==
  \/ InitSubscription
  \/ InitSkip
  \/ InitImportRaises
  \/ InitSubscribeRaises
  \/ CreateTimer
  \/ CreateTimerRaises
  \/ \E t \in Topics : Deliver(t)
  \/ \E t \in Topics : CbAcquire(t)
  \/ \E t \in Topics : CbStore(t)
  \/ \E t \in Topics : CbRelease(t)
  \/ TimerFire
  \/ TickAcquire
  \/ TickField
  \/ TickAppend
  \/ TickRelease
  \/ Interrupt
  \/ WriteCsvEmpty
  \/ WriteCsvOpen
  \/ WriteHeader
  \/ WriteRow
  \/ WriteCsvDone
  \/ Destroy

Spec == Init /\ [][Next]_vars

\* ------------------------------------------- the node under unbounded load
\* Lines 73-74 and 77 with no bound on the number of messages: a topic whose
\* callback has returned may deliver again, for ever.
DeliverAny(t) ==
  /\ mainpc = "spin"
  /\ t \in DOMAIN recorded_subscriptions
  /\ cb[t].pc = "idle"
  /\ \E m \in Delivered(t) : cb' = [cb EXCEPT ![t] = [pc |-> "acquire", msg |-> m]]
  /\ UNCHANGED <<initVars, mainpc, latest_messages, data, data_lock, tickVars,
                 putlog, rowlog, logs, outVars>>

\* Line 79, without the history of the stores (which would grow for ever).
CbStoreLive(t) ==
  /\ cb[t].pc = "store"
  /\ latest_messages' = StoreMessage(latest_messages, t, cb[t].msg)
  /\ cb' = [cb EXCEPT ![t].pc = "release"]
  /\ UNCHANGED <<initVars, mainpc, data, data_lock, tickVars, putlog, rowlog, logs,
                 outVars>>

LiveNext ==
  \/ InitSubscription
  \/ InitSkip
  \/ InitImportRaises
  \/ InitSubscribeRaises
  \/ CreateTimer
  \/ CreateTimerRaises
  \/ \E t \in Topics : DeliverAny(t)
  \/ \E t \in Topics : CbAcquire(t)
  \/ \E t \in Topics : CbStoreLive(t)
  \/ \E t \in Topics : CbRelease(t)
  \/ TimerFire
  \/ TickAcquire
  \/ TickField
  \/ TickAppend
  \/ TickRelease
  \/ Interrupt
  \/ WriteCsvEmpty
  \/ WriteCsvOpen
  \/ WriteHeader
  \/ WriteRow
  \/ WriteCsvDone
  \/ Destroy

\* The scheduling of the callbacks: a callback that can take its next step
\* takes it (weak fairness), and a callback that waits for data_lock gets it
\* if the lock is free again and again (strong fairness: a waiter that is
\* passed over for ever is what fair scheduling rules out). Nothing is
\* assumed of the transport, the timer or the interrupt.
Fairness ==
  /\ \A t \in Topics :
       SF_vars(CbAcquire(t)) /\ WF_vars(CbStoreLive(t)) /\ WF_vars(CbRelease(t))
  /\ SF_vars(TickAcquire)
  /\ WF_vars(TickField) /\ WF_vars(TickAppend) /\ WF_vars(TickRelease)

LiveSpec == Init /\ [][LiveNext]_vars /\ Fairness

\* ------------------------------------------------------ history and helpers
\* The message of the last store to topic K in the history log, None if
\* there is none.
LastPut(log, K) ==
  LET idx == {i \in 1..Len(log) : log[i][1] = K}
  IN  IF idx = {} THEN None
      ELSE log[CHOOSE i \in idx : \A j \in idx : j <= i][2]

\* The stores completed before row i was appended.
PutsBefore(i) == SubSeq(putlog, 1, rowlog[i])

\* The configured output names.
OutputNames == {fields[j].name : j \in 1..Len(fields)}

\* Field j is the last field specification of its name: the one whose value
\* a row keeps under that name.
Kept(j) == \A l \in 1..Len(fields) : fields[l].name = fields[j].name => l <= j

\* The message field j's topic had when row i was appended.
Source(i, j) == LastPut(PutsBefore(i), fields[j].topic_name)
\* The walk of field j's path over a message.
Walk(m, j) == WalkAttrs(m, split(fields[j].field_path))
\* Field j had a message for row i and its path did not resolve.
Failed(i, j) == LET m == Source(i, j) IN m # None /\ ~Walk(m, j).ok
\* Field j had a message for row i and its path resolved to v.
ResolvedTo(i, j, v) ==
  LET m == Source(i, j) IN m # None /\ (LET w == Walk(m, j) IN w.ok /\ w.value = v)

IsPrefix(s, t) == Len(s) <= Len(t) /\ SubSeq(t, 1, Len(s)) = s

\* ------------------------------------------------------------------ claims

\* C1: every row of the table has exactly the configured output names as its
\* keys, whichever sources have received a message.
C1_RowKeys == \A i \in 1..Len(data) : DOMAIN data[i] = OutputNames

\* C1 witness: a row of the two-source configuration, recorded before any
\* message arrived.
C1_Witness == config = CfgTwo /\ putlog = <<>> /\ Len(data) >= 1

\* C2: the table never holds more rows than the timer fired nor fewer than
\* record_data returned, and holds exactly N rows once all N calls returned.
C2_RowCount ==
  /\ ticksCompleted <= Len(data)
  /\ Len(data) <= ticksFired
  /\ (ticksFired = ticksCompleted => Len(data) = ticksCompleted)

\* C2 witness: all ticks returned, and every field of every row is empty.
C2_Witness ==
  /\ ticksCompleted = MaxTicks /\ ticksFired = ticksCompleted
  /\ Len(data) = MaxTicks
  /\ \A i \in 1..Len(data) : \A n \in DOMAIN data[i] : data[i][n] = EmptyStr

\* The scenario of C3: one source, x.y -> col1; x.y = 5 was stored before the
\* first row was appended, x.y = 7 between the first and the second.
FiveThenSeven ==
  /\ config = CfgScenario /\ Len(data) = 2
  /\ PutsBefore(1) = << <<"/a", M5>> >>
  /\ PutsBefore(2) = << <<"/a", M5>>, <<"/a", M7>> >>

\* C3: the message a tick reads for a topic is the one of the last store to
\* that topic (earlier stores and stores to other topics do not matter); with
\* x.y = 5 stored before the first tick and x.y = 7 before the second, the
\* rows hold col1 = 5, then col1 = 7.
C3_LatestWins ==
  /\ (tickpc \in {"loop", "release"} /\ fi > 1
        => msg = LastPut(putlog, fields[fi - 1].topic_name))
  /\ (FiveThenSeven => data[1]["col1"] = PyInt("5") /\ data[2]["col1"] = PyInt("7"))

\* C3 witness: 5 then 7 stored around the first of two ticks.
C3_Witness == FiveThenSeven /\ mainpc = "spin"

\* What write_csv has written below the header is the table so far, row for
\* row in the table's order.
ExportInOrder ==
  csvfile.opened =>
    \A k \in 2..Len(csvfile.lines) :
      /\ k - 1 <= Len(data)
      /\ \A j \in 1..Len(fields) :
           csvfile.lines[k][j] = Render(data[k - 1][fields[j].name])

\* C4: the table only grows at its end (the table of every earlier state is
\* a prefix of the current one), and the export writes the rows in that order.
C4_AppendOnly == [][IsPrefix(data, data')]_vars /\ []ExportInOrder

\* C4 witness: two different rows were recorded and exported.
C4_Witness ==
  /\ mainpc = "done" /\ Len(data) = 2 /\ data[1] # data[2]
  /\ Len(csvfile.lines) = 3

\* C5: a field of a source that never received a message is recorded as '',
\* whatever its path; one source, x.y -> col1, no message, one tick: the
\* export is the header col1 and one row with an empty col1.
C5_NeverUpdated ==
  /\ \A i \in 1..Len(data) : \A j \in 1..Len(fields) :
       Source(i, j) = None => data[i][fields[j].name] = EmptyStr
  /\ (config = CfgScenario /\ putlog = <<>> /\ Len(data) = 1 /\ mainpc = "done"
        => csvfile = [opened |-> TRUE, lines |-> << <<"col1">>, <<"">> >>])

\* C5 witness: the scenario's run, exported.
C5_Witness ==
  /\ config = CfgScenario /\ putlog = <<>> /\ Len(data) = 1 /\ mainpc = "done"
  /\ csvfile.opened

\* C6: with an empty table the export opens no file and writes nothing, not
\* even a header; it logs an info message and main goes on to its end.
C6_EmptyExport ==
  /\ (data = <<>> => csvfile = NoFile)
  /\ (data = <<>> /\ mainpc \in {"destroy", "done"}
        => /\ [level |-> "info", text |-> "No data to write to CSV.", locked |-> FALSE]
                \in logs
           /\ \A e \in logs : e.text = "No data to write to CSV." => e.level = "info"
           /\ \A e \in logs : e.text # "Data written to output_csv")

\* C6 witness: the node spun, no tick ever ran, and main has ended.
C6_Witness == mainpc = "done" /\ timer /\ ticksFired = 0 /\ data = <<>>

Rows == 1..Len(data)
Cols == 1..Len(fields)

\* The statement of C7 as the specification has it: whatever is recorded for
\* a failed extraction differs from whatever is recorded for a field that
\* resolved to 0, to False or to ''.
C7_Original ==
  \A i1 \in Rows, i2 \in Rows : \A j1 \in Cols, j2 \in Cols :
    /\ Kept(j1) /\ Kept(j2) /\ Failed(i1, j1)
    /\ \E v \in {PyInt("0"), PyBool("False"), PyStr("")} : ResolvedTo(i2, j2, v)
    => data[i1][fields[j1].name] # data[i2][fields[j2].name]

\* C7 (amended): get_field_value answers a failed extraction with None, which
\* no resolved value is (first conjunct: the call the tick has just made); the row records the failure as '', which differs from
\* a recorded 0 or False and equals what a field that resolved to '' records
\* (stated per field: a failure is recorded as '', a resolved 0 or False as
\* itself and not as '', a resolved '' as '').
C7_Sentinel ==
  /\ (tickpc = "loop" /\ fi > 1 /\ msg # None =>
        LET w == Walk(msg, fi - 1)
            g == get_field_value(msg, fields[fi - 1].field_path)
        IN  /\ ~w.ok => g.value = None
            /\ w.ok => g.value = w.value /\ g.value # None)
  /\ \A i \in Rows : \A j \in Cols :
       Kept(j) /\ Source(i, j) # None =>
         LET w == Walk(Source(i, j), j)
             recorded == data[i][fields[j].name]
         IN  /\ ~w.ok => recorded = EmptyStr
             /\ w.ok /\ w.value \in {PyInt("0"), PyBool("False")}
                  => recorded = w.value /\ recorded # EmptyStr
             /\ w.ok /\ w.value = PyStr("") => recorded = EmptyStr

\* C7 witness: one row with a failed field, a field that resolved to 0 and a
\* field that resolved to ''.
C7_Witness ==
  \E i \in Rows : \E j \in Cols, k \in Cols, l \in Cols :
    Failed(i, j) /\ ResolvedTo(i, k, PyInt("0")) /\ ResolvedTo(i, l, PyStr(""))

\* What field j records for row i, from its own source and path alone.
OwnValue(i, j) ==
  LET m == Source(i, j)
  IN  IF m = None THEN EmptyStr
      ELSE LET w == Walk(m, j) IN IF w.ok THEN w.value ELSE EmptyStr

\* C8: a field whose extraction fails is recorded as '' and every other field
\* of the row holds the value of its own source and path; a tick leaves its
\* loop over the fields only by appending its row (or when main is
\* interrupted), never because an extraction failed.
C8_FaultIsolation ==
  /\ [](\A i \in Rows : \A j \in Cols :
          Kept(j) => /\ fields[j].name \in DOMAIN data[i]
                     /\ data[i][fields[j].name] = OwnValue(i, j))
  /\ [][tickpc = "loop" /\ tickpc' # "loop"
          => \/ tickpc' = "release" /\ Len(data') = Len(data) + 1
             \/ mainpc' = "write_csv"]_vars

\* C8 witness: a completed tick whose row has a failed field after a field
\* that resolved to 5.
C8_Witness ==
  /\ ticksCompleted >= 1
  /\ \E i \in Rows : \E j \in Cols, k \in Cols :
       k < j /\ Failed(i, j) /\ ResolvedTo(i, k, PyInt("5"))
       /\ data[i][fields[k].name] = PyInt("5")

\* __init__ has met a subscription whose message type cannot be imported.
BadSeen ==
  \E i \in 1..Len(config) :
    /\ ~Importable(config[i].message_type)
    /\ i < subIdx \/ (i = subIdx /\ mainpc = "crashed")

ImportError == [level |-> "error", text |-> "Could not import message type", locked |-> FALSE]

\* The statement of C9 as the specification has it: once such a descriptor
\* was met there is no subscription and no timer.
C9_Original == BadSeen => DOMAIN recorded_subscriptions = {} /\ ~timer

\* C9 (amended): a descriptor for which get_message gives None is logged and
\* skipped: no subscription, no cache entry and no field of it is registered,
\* and __init__ goes on with the next subscription and the timer.
C9_Skipped ==
  /\ [](\A i \in 1..Len(config) :
          i < subIdx /\ ~Importable(config[i].message_type) =>
            /\ ImportError \in logs
            /\ config[i].topic_name \notin DOMAIN recorded_subscriptions
            /\ config[i].topic_name \notin DOMAIN latest_messages
            /\ \A j \in Cols : fields[j].topic_name # config[i].topic_name)
  /\ [][ImportError \notin logs /\ ImportError \in logs'
          => mainpc' = "init" /\ subIdx' = subIdx + 1]_vars

\* C9 witness: after the skip the other subscription and the timer exist and
\* a row was recorded.
C9_Witness ==
  /\ config = CfgSkip /\ ImportError \in logs
  /\ "/a" \in DOMAIN recorded_subscriptions /\ timer /\ Len(data) >= 1

\* A configuration with a duplicate output name, an empty topic name or an
\* interval that is not positive.
Malformed ==
  LET all == UNION {{<<i, j>> : j \in 1..Len(config[i].fields)} : i \in 1..Len(config)}
  IN  \/ \E p \in all, q \in all :
           p # q /\ config[p[1]].fields[p[2]].name = config[q[1]].fields[q[2]].name
      \/ \E i \in 1..Len(config) : config[i].topic_name = ""
      \/ interval <= 0

\* C10: under a malformed configuration no tick runs and no row is recorded.
C10_Rejected == Malformed => ticksFired = 0 /\ data = <<>>


\* A value that is neither a number, a truth value nor a string.
IsNested(value) == value.t \notin {"int", "bool", "str", "NoneType"}

\* The statement of C11 as the specification has it: a path that resolves to
\* a nested object is recorded as ''.
C11_Original ==
  \A i \in Rows : \A j \in Cols :
    Kept(j) /\ Source(i, j) # None =>
      LET w == Walk(Source(i, j), j)
      IN  w.ok /\ IsNested(w.value) => data[i][fields[j].name] = EmptyStr

\* C11 (amended): a path that resolves to a nested object is recorded as that
\* object, and the export writes str() of it.
C11_NestedKept ==
  /\ \A i \in Rows : \A j \in Cols :
       LET m == Source(i, j)
           w == Walk(m, j)
       IN  m # None /\ Kept(j) /\ w.ok /\ IsNested(w.value) =>
             /\ data[i][fields[j].name] = w.value
             /\ data[i][fields[j].name] # EmptyStr
  /\ \A k \in 2..Len(csvfile.lines) : \A j \in Cols :
       k - 1 <= Len(data) /\ IsNested(data[k - 1][fields[j].name]) =>
         csvfile.lines[k][j] = data[k - 1][fields[j].name].r

\* C11 witness: x resolved to the nested object of the message with y = 5,
\* and the row was exported.
C11_Witness ==
  /\ config = CfgSkip /\ mainpc = "done" /\ Len(data) >= 1
  /\ data[1]["col3"] = X5
  /\ csvfile.lines[2][3] = "X(y=5)"

\* C12: after the export of a table that is not empty the file holds the
\* column names in the order of the field specifications, then one line per
\* row in the table's order, each with the row's values in column order, ''
\* for a missing value; every row once.
C12_ExportFormat ==
  mainpc \in {"destroy", "done"} /\ data # <<>> =>
    /\ csvfile.opened
    /\ Len(csvfile.lines) = 1 + Len(data)
    /\ csvfile.lines[1] = [j \in Cols |-> fields[j].name]
    /\ \A i \in Rows :
         /\ Len(csvfile.lines[i + 1]) = Len(fields)
         /\ \A j \in Cols :
              csvfile.lines[i + 1][j] =
                (IF data[i][fields[j].name] = EmptyStr THEN ""
                 ELSE data[i][fields[j].name].r)

\* C12 witness: two rows exported, the first with a missing value next to a
\* value, the second different from the first.
C12_Witness ==
  /\ config = CfgTwo /\ mainpc = "done" /\ Len(data) = 2
  /\ data[1]["col1"] = PyInt("5") /\ data[1]["col4"] = EmptyStr
  /\ data[2] # data[1]
  /\ csvfile.lines[2] = <<"5", "", "", "">>


\* main has left spin and is in write_csv or past it.
Exporting == mainpc \in {"write_csv", "writeheader", "writerows", "destroy", "done"}

NoCallbackRunning == tickpc = "idle" /\ \A t \in Topics : cb[t].pc = "idle"

\* C13: write_csv is entered once, from spin, when no callback is running any
\* more; from then on no row is appended and no message stored; and when main
\* has ended the export was done (the file holds the whole table, or the
\* table is empty and that was logged).
C13_ShutdownOrder ==
  /\ [](Exporting => NoCallbackRunning /\ ~data_lock)
  /\ [][Exporting => data' = data /\ latest_messages' = latest_messages]_vars
  /\ [][mainpc # "write_csv" /\ mainpc' = "write_csv" => mainpc = "spin"]_vars
  /\ [][Exporting => mainpc' # "spin" /\ (mainpc # "write_csv" => mainpc' # "write_csv")]_vars
  /\ [](mainpc = "done" =>
          \/ data = <<>> /\ ~csvfile.opened
               /\ \E e \in logs : e.text = "No data to write to CSV."
          \/ data # <<>> /\ csvfile.opened /\ Len(csvfile.lines) = 1 + Len(data))

\* C13 witness: spin ended while a tick was running, after a row and a stored
\* message; main has exported and ended.
C13_Witness ==
  /\ mainpc = "done" /\ ticksFired > ticksCompleted
  /\ Len(data) >= 1 /\ Len(putlog) >= 1

\* C14: every row of the table has every configured field, in every state; a
\* tick that has not reached its append has not touched the table, the end of
\* spin leaves the table as it is, and the table changes only by the append
\* of a row that has all its fields.
C14_AtomicRows ==
  /\ [](\A i \in Rows : \A j \in Cols : fields[j].name \in DOMAIN data[i])
  /\ [](tickpc \in {"acquire", "loop"} => Len(data) = ticksCompleted)
  /\ [][mainpc = "spin" /\ mainpc' # "spin" => data' = data]_vars
  /\ [][data' # data => DOMAIN row = OutputNames /\ data' = Append(data, row)]_vars

\* C14 witness: the only tick was unwound after the second of its four fields
\* (whose failure it had logged); the table is empty and main has ended.
C14_Witness ==
  /\ config = CfgTwo /\ mainpc = "done"
  /\ ticksFired = 1 /\ ticksCompleted = 0 /\ data = <<>>
  /\ \E e \in logs : e.text = "Could not get field"


\* The callbacks that are inside a with self.data_lock block.
Holders ==
  Cardinality({t \in Topics : cb[t].pc \in {"store", "release"}})
    + (IF tickpc \in {"loop", "release"} THEN 1 ELSE 0)

Msgs == {None, M5, M7, M0}

\* What record_data records for field j when the topic holds m.
ValueOf(m, j) == RowAfterField(EmptyDict, fields[j], m)[fields[j].name]

\* C16: for every row and every topic there is one stored value (or none yet)
\* from which all the fields of the row on that topic were read.
C16_Snapshot ==
  \A i \in Rows : \A S \in DOMAIN latest_messages : \E m \in Msgs :
    \A j \in Cols :
      fields[j].topic_name = S /\ Kept(j) /\ fields[j].name \in DOMAIN data[i]
        => data[i][fields[j].name] = ValueOf(m, j)

\* C16 witness: a row with three fields of /a, all read from the message with
\* y = 5, has just been appended while the message with y = 7 waits for the
\* lock.
C16_Witness ==
  /\ config = CfgTwo /\ tickpc = "release" /\ Len(data) = 1
  /\ cb["/a"] = [pc |-> "acquire", msg |-> M7]
  /\ latest_messages["/a"] = M5
  /\ data[1]["col1"] = PyInt("5") /\ data[1]["col3"] = PyStr("")


\* C18: no log entry is written while data_lock is held, the error entry of a
\* field path that does not resolve included, and the export runs without
\* the lock.
C18_NoIOUnderLock ==
  /\ \A e \in logs : ~e.locked
  /\ (Exporting => ~data_lock)


\* C19: once __init__ has returned, every field of self.fields is on a topic
\* that is a key of latest_messages, and so is every subscribed topic, also
\* when a subscription was skipped; and from then on the keys of
\* latest_messages, self.fields and the subscriptions do not change.
C19_Registration ==
  /\ [](mainpc \notin {"init", "crashed"} =>
          /\ \A j \in Cols : fields[j].topic_name \in DOMAIN latest_messages
          /\ DOMAIN recorded_subscriptions \subseteq DOMAIN latest_messages)
  /\ [][mainpc # "init" =>
          /\ DOMAIN latest_messages' = DOMAIN latest_messages
          /\ fields' = fields
          /\ recorded_subscriptions' = recorded_subscriptions]_vars

\* C19 witness: the subscription on /b was skipped, /a is the only key, and a
\* message was stored and a tick completed since.
C19_Witness ==
  /\ config = CfgSkip /\ mainpc = "spin"
  /\ \E e \in logs : e.text = "Could not import message type"
  /\ DOMAIN latest_messages = {"/a"} /\ Len(fields) = 3
  /\ Len(putlog) >= 1 /\ ticksCompleted >= 1


\* A step of a callback that is running.
CallbackStep ==
  \/ TickAcquire \/ TickField \/ TickAppend \/ TickRelease
  \/ \E t \in Topics : CbAcquire(t) \/ CbStoreLive(t) \/ CbRelease(t)

====
